---- MODULE Spec2Model ----
(***************************************************************************)
(* The learning portal: its access gate (component AccessControl) and,     *)
(* behind the gate, HomePage with the video player (component VideoPlayer).*)
(*                                                                         *)
(* Two revisions of AccessControl are in the repository: unnamed/part_002, *)
(* whose redirect flow falls back to a local grant, and                    *)
(* src/components/AccessControl.tsx, whose redirect flow falls back to a   *)
(* direct navigation to the return URL.  The variable `variant` says which *)
(* of the two is built; everything else of the component is common.        *)
(*                                                                         *)
(* Strings that the code converts (localStorage values) are sequences of   *)
(* one-character strings; JavaScript numbers that may be NaN are records   *)
(* [nan, val].  Media positions are counted in half seconds.               *)
(*                                                                         *)
(* Spec and FairSpec are the gate from the first render of a page load;    *)
(* PlayerSpec is the player behind an open gate, driven by HomePage;       *)
(* SessionSpec adds changes of the url of a mounted player; ControlSpec,   *)
(* QualitySpec and SpeedSpec are the player driven by HomePage with its    *)
(* control bar, its quality list and its speed list in use.                *)
(* FaultSpec is the portal in a browser whose storage is at fault;         *)
(* BoundarySpec is the portal with every answer of the shortener and of    *)
(* the browser, fullscreen included; DetachedSpec is the player with the   *)
(* events that arrive after its unmount.                                   *)
(***************************************************************************)
EXTENDS Integers, Sequences, FiniteSets, TLC

VARIABLES
    variant,        \* which revision of AccessControl is built
    localStorage,   \* window.localStorage: key -> string (sequence of characters)
    now,            \* Date.now(), epoch milliseconds
    ticks,          \* number of clock advances so far (bounds the run)
    loads,          \* number of user-initiated page loads so far (bounds the run)
    loc,            \* the document the browser shows: "portal" or "shortener"
    query,          \* window.location.search of the portal page: set of <<key, value>>
    phase,          \* "rendered" (first render, effect pending), "mounted", "unmounted", "gone"
    hasAccess,      \* React state of AccessControl
    isChecking,     \* React state of AccessControl
    isRedirecting,  \* React state of AccessControl
    timer,          \* the setTimeout of the mount effect: [pending, due]
    inflight,       \* redirectToShortener invocations awaiting the shortener's answer
    navTarget,      \* pending assignment to window.location.href, or NoNav
    selectedVideo,  \* React state of HomePage (a child of the gate)
    ledger,         \* history: the grant the stored string stands for
    via,            \* history: what resolved the gate in this page load
    reloadOf        \* history: for a reloaded page, what had resolved the page reloaded

VARIABLES
    runtime,        \* the browser: media capabilities [hls, native], the state of
                    \* its storage and whether elements have requestFullscreen;
                    \* fixed for a run
    mediaSeconds,   \* the length of the lectures' media in seconds, fixed for a run
    player,         \* the VideoPlayer instance: mounted, its url prop and its React state
    video,          \* the <video> element of the player (videoRef.current)
    hlsRef,         \* hlsRef.current: "null", or the state of the engine it holds
    activeEngines,  \* number of Hls instances created and not yet destroyed
    pendingEvent,   \* the play or pause event queued on the element, or "none"
    lastWriteAt,    \* history: position of the session's last progress write, or NoPos
    writer,         \* history: progress key -> the lecture whose session wrote it last
    restoredFrom,   \* history: the lecture that wrote the progress read by the effect
    startedBy,      \* history: what ran the effect of the session: "mount" or "url"
    toast,          \* the title of the notification that the last step of the
                    \* player raised, "none" if it raised none
    lastControl,    \* the mute, seek, quality or speed handler that the last
                    \* step of the player ran, "afterUnmount" for an event
                    \* delivered after the unmount, "none" if it ran none
    uncaught        \* what left the code of the last step uncaught: "exception",
                    \* "rejection" (of a promise nobody handles) or "none"

\* the gate's own state; localStorage and selectedVideo are shared with the player
gateVars == <<variant, now, ticks, loads, loc, query, phase, hasAccess, isChecking,
              isRedirecting, timer, inflight, navTarget, ledger, via, reloadOf>>

\* what the player finds: the browser and the media
envVars == <<runtime, mediaSeconds>>

playerVars == <<envVars, player, video, hlsRef, activeEngines, pendingEvent,
                lastWriteAt, writer, restoredFrom, startedBy, toast,
                lastControl>>

vars == <<variant, localStorage, now, ticks, loads, loc, query, phase, hasAccess,
          isChecking, isRedirecting, timer, inflight, navTarget, selectedVideo, ledger,
          via, reloadOf, playerVars, uncaught>>

-----------------------------------------------------------------------------
(* Bounds of the model *)

MaxTicks == 1
MaxLoads == 1

-----------------------------------------------------------------------------
(* Program constants *)

twentyFourHours == 24 * 60 * 60 * 1000
autoRedirectDelay == 2000
GRANT_KEY == "access_granted"
MARKER_KEY == "from_shortener"

LocalGrant == "part_002"
DirectRedirect == "AccessControl.tsx"
Variants == {LocalGrant, DirectRedirect}

-----------------------------------------------------------------------------
(* JavaScript numbers and strings *)

Num(n) == [nan |-> FALSE, val |-> n]
NaN == [nan |-> TRUE, val |-> 0]

\* a - b on JavaScript numbers
Minus(a, b) == IF a.nan \/ b.nan THEN NaN ELSE Num(a.val - b.val)

\* a < b on JavaScript numbers: every comparison with NaN is false
Less(a, b) == ~a.nan /\ ~b.nan /\ a.val < b.val

Digits == <<"0", "1", "2", "3", "4", "5", "6", "7", "8", "9">>
IsDigit(c) == \E i \in 1..10 : Digits[i] = c
DigitVal(c) == (CHOOSE i \in 1..10 : Digits[i] = c) - 1

\* Number.prototype.toString() of a non-negative integer
RECURSIVE toString(_)
toString(n) ==
    IF n < 10 THEN <<Digits[n + 1]>>
    ELSE Append(toString(n \div 10), Digits[(n % 10) + 1])

\* value of the longest prefix of digits of s, read in base 10
RECURSIVE DigitPrefix(_, _)
DigitPrefix(s, acc) ==
    IF s = <<>> \/ ~IsDigit(Head(s)) THEN acc
    ELSE DigitPrefix(Tail(s), 10 * acc + DigitVal(Head(s)))

RECURSIVE TrimStart(_)
TrimStart(s) == IF s # <<>> /\ Head(s) = " " THEN TrimStart(Tail(s)) ELSE s

\* parseInt(s): leading blanks skipped, optional sign, then digits up to the
\* first character that is not one; NaN when there is no digit
parseInt(s) ==
    LET t == TrimStart(s)
        neg == t # <<>> /\ Head(t) = "-"
        u == IF t # <<>> /\ Head(t) \in {"-", "+"} THEN Tail(t) ELSE t
    IN  IF u = <<>> \/ ~IsDigit(Head(u)) THEN NaN
        ELSE IF neg THEN Num(0 - DigitPrefix(u, 0)) ELSE Num(DigitPrefix(u, 0))

-----------------------------------------------------------------------------
(* Access Ledger *)

\* the grant left to a later task: nothing is written in this one
writeGrantLater(ls, t) == ls

\* a grant stored in seconds instead of milliseconds
writeGrantSeconds(ls, t) ==
    [k \in (DOMAIN ls) \cup {GRANT_KEY} |->
        IF k = GRANT_KEY THEN toString(t \div 1000) ELSE ls[k]]

\* localStorage.setItem('access_granted', Date.now().toString())
writeGrant(ls, t) ==
    [k \in (DOMAIN ls) \cup {GRANT_KEY} |-> IF k = GRANT_KEY THEN toString(t) ELSE ls[k]]

\* checkAccess with the boundary taken as still valid (<= for <)
checkAccessInclusive(ls, t) ==
    IF GRANT_KEY \notin DOMAIN ls THEN FALSE
    ELSE LET accessGranted == ls[GRANT_KEY]
         IN  IF accessGranted = <<>> THEN FALSE
             ELSE ~Less(Num(twentyFourHours), Minus(Num(t), parseInt(accessGranted)))

\* checkAccess(): the item is absent or the empty string -> false; otherwise
\* (Date.now() - parseInt(item)) < 24h
checkAccess(ls, t) ==
    IF GRANT_KEY \notin DOMAIN ls THEN FALSE
    ELSE LET accessGranted == ls[GRANT_KEY]
         IN  IF accessGranted = <<>> THEN FALSE
             ELSE Less(Minus(Num(t), parseInt(accessGranted)), Num(twentyFourHours))

-----------------------------------------------------------------------------
(* Address of the page *)

\* new URLSearchParams(window.location.search).get('from_shortener') === 'true'
fromShortener(q) == <<MARKER_KEY, "true">> \in q

\* replaceState that leaves the address as it is
replaceStateKeep(q) == q

\* window.history.replaceState({}, document.title, window.location.pathname):
\* the visible address becomes the path alone
replaceState(q) == {}

\* returnUrl: homepageUrl with searchParams.set('from_shortener', 'true')
returnUrlQuery == {<<MARKER_KEY, "true">>}
RETURN_URL == "homepageUrl?from_shortener=true"
SHORT_A == "https://vplink.in/a"
SHORT_B == "https://vplink.in/b"
NoNav == "none"

\* the addresses a visitor may open the portal with
Queries ==
    { {},
      {<<MARKER_KEY, "true">>},
      {<<MARKER_KEY, "false">>},
      {<<"ref", "x">>},
      {<<MARKER_KEY, "true">>, <<"ref", "x">>} }

-----------------------------------------------------------------------------
(* Render decision *)

\* a render that shows the children whenever the check is over
ViewUngated ==
    IF phase \notin {"rendered", "mounted"} THEN "none"
    ELSE IF isChecking THEN "loading"
    ELSE "children"

\* a render that evaluates the TTL of the stored grant again
ViewRechecked ==
    IF phase \notin {"rendered", "mounted"} THEN "none"
    ELSE IF isChecking THEN "loading"
    ELSE IF ~(hasAccess /\ checkAccess(localStorage, now)) THEN "gate"
    ELSE "children"

\* AccessControl's render: loading view, gate view, or the children
View ==
    IF phase \notin {"rendered", "mounted"} THEN "none"
    ELSE IF isChecking THEN "loading"
    ELSE IF ~hasAccess THEN "gate"
    ELSE "children"

\* the four states of the gate, read off the three flags
GateState ==
    IF isChecking THEN "Checking"
    ELSE IF hasAccess THEN "Granted"
    ELSE IF isRedirecting THEN "Redirecting"
    ELSE "Denied"

-----------------------------------------------------------------------------
NoTimer == [pending |-> FALSE, due |-> 0]

TypeOK ==
    /\ variant \in Variants
    /\ now \in Nat /\ ticks \in 0..MaxTicks /\ loads \in 0..MaxLoads
    /\ loc \in {"portal", "shortener"}
    /\ phase \in {"rendered", "mounted", "unmounted", "gone"}
    /\ hasAccess \in BOOLEAN /\ isChecking \in BOOLEAN /\ isRedirecting \in BOOLEAN
    /\ timer.pending \in BOOLEAN /\ timer.due \in Nat
    /\ inflight \in Nat
    /\ navTarget \in {NoNav, RETURN_URL, SHORT_A, SHORT_B}

-----------------------------------------------------------------------------
(* The shortener's answer to one request *)

UNDEF == "undefined"

\* JavaScript truthiness of a string-valued field
Truthy(v) == v \notin {UNDEF, ""}

\* a || b on string-valued fields
OrElse(a, b) == IF Truthy(a) THEN a ELSE b

\* what `await fetch(apiUrl)` followed by `await response.json()` can produce:
\* a rejected fetch, a body that is not JSON, the JSON value null, or an object
Outcomes ==
    {[kind |-> "reject"], [kind |-> "badjson"], [kind |-> "null"]}
    \cup
    [kind : {"object"},
     status : {UNDEF, "success", "error"},
     shortenedUrl : {UNDEF, "", SHORT_A},
     shorturl : {UNDEF, SHORT_B}]

\* the catch block is entered: fetch or json() rejected, or data is null and
\* reading a property of it throws
Throws(o) == o.kind \in {"reject", "badjson", "null"}

\* the revision part_002 with the fallback of its catch block left out
resumeLocalGrantNoCatch(o) ==
    IF Throws(o) THEN [nav |-> NoNav, grant |-> FALSE]
    ELSE IF Truthy(o.shortenedUrl) \/ Truthy(o.shorturl)
         THEN [nav |-> OrElse(o.shortenedUrl, o.shorturl), grant |-> FALSE]
         ELSE [nav |-> NoNav, grant |-> TRUE]

\* redirectToShortener after the awaits, revision part_002 (lines 47-63):
\* the href it assigns (or NoNav) and whether it takes the local-grant fallback
resumeLocalGrant(o) ==
    IF Throws(o) THEN [nav |-> NoNav, grant |-> TRUE]
    ELSE IF Truthy(o.shortenedUrl) \/ Truthy(o.shorturl)
         THEN [nav |-> OrElse(o.shortenedUrl, o.shorturl), grant |-> FALSE]
         ELSE [nav |-> NoNav, grant |-> TRUE]

\* redirectToShortener after the awaits, revision AccessControl.tsx (lines 52-68)
resumeDirectRedirect(o) ==
    IF Throws(o) THEN [nav |-> RETURN_URL, grant |-> FALSE]
    ELSE IF o.status = "success" /\ Truthy(o.shortenedUrl)
         THEN [nav |-> o.shortenedUrl, grant |-> FALSE]
         ELSE [nav |-> RETURN_URL, grant |-> FALSE]

resume(v, o) == IF v = LocalGrant THEN resumeLocalGrant(o) ELSE resumeDirectRedirect(o)

-----------------------------------------------------------------------------
(* Video player: values and pure functions *)

NoVideo == "none"
Videos == {"lecture1", "lecture2", "lecture3"}

\* Lecture.link of the lectures of the catalogue: two on one host, one on another
link(v) ==
    CASE v = "lecture1" ->
            <<"h", "t", "t", "p", "s", ":", "/", "/", "c", "d", "n", ".", "i", "o", "/",
              "a", ".", "m", "3", "u", "8">>
      [] v = "lecture2" ->
            <<"h", "t", "t", "p", "s", ":", "/", "/", "c", "d", "n", ".", "i", "o", "/",
              "b", ".", "m", "3", "u", "8">>
      [] v = "lecture3" ->
            <<"h", "t", "t", "p", "s", ":", "/", "/", "v", ".", "i", "o", "/",
              "c", ".", "m", "3", "u", "8">>

\* the printable ASCII characters, from code 32 to code 126 (the double quote,
\* the backslash and the backquote, which a URL does not contain, are entered by name)
Ascii ==
    <<
      " ", "!", "dquote", "#", "$", "%", "&", "'", "(", ")", "*", "+", ",", "-", ".", "/",
      "0", "1", "2", "3", "4", "5", "6", "7", "8", "9", ":", ";", "<", "=", ">", "?",
      "@", "A", "B", "C", "D", "E", "F", "G", "H", "I", "J", "K", "L", "M", "N", "O",
      "P", "Q", "R", "S", "T", "U", "V", "W", "X", "Y", "Z", "[", "backslash", "]", "^", "_",
      "backquote", "a", "b", "c", "d", "e", "f", "g", "h", "i", "j", "k", "l", "m", "n", "o",
      "p", "q", "r", "s", "t", "u", "v", "w", "x", "y", "z", "{", "|", "}", "~"
    >>

charCode(c) == 31 + (CHOOSE i \in 1..Len(Ascii) : Ascii[i] = c)

Base64Alphabet ==
    <<
      "A", "B", "C", "D", "E", "F", "G", "H", "I", "J", "K", "L", "M", "N", "O", "P",
      "Q", "R", "S", "T", "U", "V", "W", "X", "Y", "Z", "a", "b", "c", "d", "e", "f",
      "g", "h", "i", "j", "k", "l", "m", "n", "o", "p", "q", "r", "s", "t", "u", "v",
      "w", "x", "y", "z", "0", "1", "2", "3", "4", "5", "6", "7", "8", "9", "+", "/"
    >>

Base64Char(n) == Base64Alphabet[n + 1]

\* btoa on the character codes of a string: three bytes give four characters,
\* a remainder of one or two bytes is padded with "="
RECURSIVE btoaCodes(_)
btoaCodes(b) ==
    IF Len(b) = 0 THEN <<>>
    ELSE IF Len(b) = 1
    THEN <<Base64Char(b[1] \div 4), Base64Char((b[1] % 4) * 16), "=", "=">>
    ELSE IF Len(b) = 2
    THEN <<Base64Char(b[1] \div 4),
           Base64Char((b[1] % 4) * 16 + b[2] \div 16),
           Base64Char((b[2] % 16) * 4), "=">>
    ELSE <<Base64Char(b[1] \div 4),
           Base64Char((b[1] % 4) * 16 + b[2] \div 16),
           Base64Char((b[2] % 16) * 4 + b[3] \div 64),
           Base64Char(b[3] % 64)>>
         \o btoaCodes(SubSeq(b, 4, Len(b)))

btoa(s) == btoaCodes([i \in 1..Len(s) |-> charCode(s[i])])

\* String.prototype.substring(from, to) for 0 <= from <= to
substring(s, from, to) ==
    SubSeq(s, from + 1, IF to < Len(s) THEN to ELSE Len(s))

\* a sequence of characters as one string
RECURSIVE Join(_)
Join(s) == IF s = <<>> THEN "" ELSE Head(s) \o Join(Tail(s))

\* const videoId = btoa(url).substring(0, 20)
videoId(url) == Join(substring(btoa(url), 0, 20))

\* `video_progress_${videoId}`
progressKey(url) == "video_progress_" \o videoId(url)

\* the progress key of each lecture of the catalogue
keyOf == [v \in Videos |-> progressKey(link(v))]

\* Media positions are counted in steps of 1/TicksPerSecond of a second.
TicksPerSecond == 2

\* Math.floor(t) of a position, in whole seconds
Floor(t) == t \div TicksPerSecond

\* Number.prototype.toString() of a position: "10" or "10.5"
positionToString(t) ==
    IF t % TicksPerSecond = 0 THEN toString(t \div TicksPerSecond)
    ELSE toString(t \div TicksPerSecond) \o <<".", "5">>

\* parseFloat(s): leading blanks skipped, digits, then an optional fraction;
\* NaN when s does not start with a digit.  The positions of the model are
\* multiples of half a second, so of a fraction only its first digit counts.
parseFloat(s) ==
    LET t == TrimStart(s)
        RECURSIVE AfterDigits(_)
        AfterDigits(u) == IF u = <<>> \/ ~IsDigit(Head(u)) THEN u ELSE AfterDigits(Tail(u))
        rest == AfterDigits(t)
        half == /\ Len(rest) >= 2 /\ rest[1] = "." /\ IsDigit(rest[2])
                /\ DigitVal(rest[2]) >= 5
    IN  IF t = <<>> \/ ~IsDigit(Head(t)) THEN NaN
        ELSE Num(DigitPrefix(t, 0) * TicksPerSecond + (IF half THEN 1 ELSE 0))

\* the test of handleTimeUpdate with Math.round in place of Math.floor
ShouldSaveRounded(t) == ((t + 1) \div TicksPerSecond) % 5 = 0

\* Math.floor(video.currentTime) % 5 === 0
ShouldSave(t) == Floor(t) % 5 = 0

\* the length of the lectures of a long catalogue and of a short one, in seconds
MaxSeconds == 12
ShortSeconds == 1

\* video.duration once the metadata of a lecture is loaded
durationOf(v) == mediaSeconds * TicksPerSecond

\* The positions at which the model looks at a playing element: in every
\* second whose number is a multiple of 5 its start and its middle, and the
\* start of every second that follows one of those; the end of the media.
Sampled(t) ==
    \/ Floor(t) % 5 = 0
    \/ Floor(t) % 5 = 1 /\ t % TicksPerSecond = 0
    \/ t = mediaSeconds * TicksPerSecond

\* the first sampled position after t
NextSampled(t) ==
    CHOOSE u \in (t + 1)..(mediaSeconds * TicksPerSecond) :
        Sampled(u) /\ \A w \in (t + 1)..(u - 1) : ~Sampled(w)

NoPos == -1
AUTO == -1
NoToast == "none"
NoControl == "none"
NoFault == "none"
PLAYBACK_ERROR == "Playback Error"
QUALITY_CHANGED == "Quality Changed"
SPEED_CHANGED == "Speed Changed"
NoError == "null"
LOAD_ERROR == "Failed to load video. Please try again."
UNSUPPORTED_ERROR == "HLS is not supported in this browser."

\* the useState defaults of VideoPlayer (playbackRate in hundredths)
NewPlayer(v) ==
    [mounted |-> TRUE, url |-> v, isPlaying |-> FALSE, isMuted |-> FALSE,
     currentTime |-> 0, duration |-> 0, isLoading |-> TRUE, error |-> NoError,
     qualityLevels |-> <<>>, currentQuality |-> AUTO, playbackRate |-> 100]

NoPlayer == [NewPlayer(NoVideo) EXCEPT !.mounted = FALSE]

\* a new <video> element: no source, readyState HAVE_NOTHING
NewVideo ==
    [src |-> NoVideo, attach |-> "none", readyState |-> "nothing", failed |-> FALSE,
     currentTime |-> 0, defaultStart |-> 0, duration |-> 0, paused |-> TRUE,
     muted |-> FALSE, playbackRate |-> 100, playPromise |-> FALSE,
     fullscreen |-> FALSE]

\* the element forgets a position assigned before its source was attached
setCurrentTimeDropEarly(el, t) ==
    IF el.readyState = "nothing" THEN el
    ELSE [el EXCEPT !.currentTime = IF t > el.duration THEN el.duration ELSE t]

\* video.currentTime = t: with readyState HAVE_NOTHING the element keeps t as
\* its default playback start position, otherwise it seeks (within the media)
setCurrentTime(el, t) ==
    IF el.readyState = "nothing" THEN [el EXCEPT !.defaultStart = t]
    ELSE [el EXCEPT !.currentTime = IF t > el.duration THEN el.duration
                                    ELSE IF t < 0 THEN 0 ELSE t]

\* reading video.currentTime as the playback position alone
getCurrentTimeOfficial(el) == el.currentTime

\* reading video.currentTime: the default playback start position unless it
\* is zero, else the playback position
getCurrentTime(el) == IF el.defaultStart # 0 THEN el.defaultStart ELSE el.currentTime

\* the element's load algorithm, run by video.src = url and by hls.attachMedia;
\* it sets the rate to the default rate and rejects the pending play promises
loadMedia(el, v, how) ==
    [el EXCEPT !.src = v, !.attach = how, !.readyState = "nothing", !.failed = FALSE,
               !.currentTime = 0, !.duration = 0, !.paused = TRUE,
               !.playbackRate = 100, !.playPromise = FALSE]

\* the element reaches HAVE_METADATA: the duration is known and the element
\* seeks to its default playback start position
metadataLoaded(el, d) ==
    [el EXCEPT !.readyState = "metadata", !.duration = d,
               !.currentTime = IF el.defaultStart > d THEN d ELSE el.defaultStart,
               !.defaultStart = 0, !.playPromise = FALSE]

\* video.play(): the browser refuses the request (not allowed, or the element
\* has failed to load its source) and rejects the promise at once; else the
\* element leaves the paused state, a 'play' event is queued if it was
\* paused, and the promise stays pending until the element has metadata
play(el, allowed) ==
    IF ~allowed \/ el.failed
    THEN [el |-> el, event |-> "none", rejected |-> TRUE]
    ELSE [el |-> [el EXCEPT !.paused = FALSE, !.playPromise = (el.readyState = "nothing")],
          event |-> IF el.paused THEN "play" ELSE "none",
          rejected |-> FALSE]

\* video.pause(): a playing element becomes paused, a 'pause' event is queued
\* and the pending play promises are rejected
pause(el) ==
    IF el.paused
    THEN [el |-> el, event |-> "none", rejected |-> FALSE]
    ELSE [el |-> [el EXCEPT !.paused = TRUE, !.playPromise = FALSE],
          event |-> "pause",
          rejected |-> el.playPromise]

\* the .catch of togglePlayPause, run for a rejected play promise:
\* toast({ title: 'Playback Error', ... })
playCatch(rejected) == IF rejected THEN PLAYBACK_ERROR ELSE NoToast

\* hlsRef.current
NoEngine == [state |-> "null", levels |-> <<>>, currentLevel |-> AUTO,
             parsed |-> FALSE, fatal |-> FALSE]
NewEngine == [NoEngine EXCEPT !.state = "active"]

\* the level lists (heights) a manifest may declare, in the manifest's order
Manifests == {<<720, 360, 720>>, <<360, 720, 1080>>}

\* localStorage of the browser: "ok"; "full", every setItem throws
\* (QuotaExceededError); "blocked", every access throws (SecurityError)
getItemThrows(rt) == rt.storage = "blocked"
setItemThrows(rt) == rt.storage # "ok"

\* localStorage.getItem(key): null when the key is absent
getItem(ls, k) ==
    IF k \in DOMAIN ls THEN [null |-> FALSE, str |-> ls[k]] ELSE [null |-> TRUE, str |-> <<>>]

\* `if (item)`: null and the empty string are falsy
ItemTruthy(item) == ~item.null /\ item.str # <<>>

\* localStorage.setItem(key, value)
setItem(ls, k, val) == [x \in DOMAIN ls \cup {k} |-> IF x = k THEN val ELSE ls[x]]

-----------------------------------------------------------------------------
(* Initial state: the first render of a page load *)

StartNow == twentyFourHours

Grant(t) == [kind |-> "grant", at |-> t]
NoGrant == [kind |-> "absent", at |-> 0]
Corrupt == [kind |-> "corrupt", at |-> 0]

\* what an earlier visit may have left under the grant key: nothing, a grant
\* written exactly 24h ago, one written 1 ms later, one written just now
InitGrantTimes == {StartNow - twentyFourHours, StartNow - twentyFourHours + 1, StartNow}

\* values under the grant key that no revision of the gate writes
CorruptValues == {<<>>, <<"a", "b", "c">>, <<"1", "2", "x">>}

EmptyStorage == [k \in {} |-> <<>>]

InitStores ==
    {[ls |-> EmptyStorage, ledger |-> NoGrant]}
    \cup {[ls |-> writeGrant(EmptyStorage, t), ledger |-> Grant(t)] : t \in InitGrantTimes}
    \cup {[ls |-> [k \in {GRANT_KEY} |-> c], ledger |-> Corrupt] : c \in CorruptValues}

\* no VideoPlayer has been rendered in this document
NoPlayerYet ==
    /\ player = NoPlayer
    /\ video = NewVideo
    /\ hlsRef = NoEngine
    /\ activeEngines = 0
    /\ pendingEvent = "none"
    /\ lastWriteAt = NoPos
    /\ restoredFrom = NoVideo
    /\ startedBy = "none"
    /\ toast = NoToast
    /\ lastControl = NoControl
    /\ uncaught = NoFault

\* the first render of the portal in a new document, nothing selected
FirstRender ==
    /\ now = StartNow
    /\ ticks = 0
    /\ loads = 0
    /\ loc = "portal"
    /\ query \in Queries
    /\ phase = "rendered"
    /\ hasAccess = FALSE
    /\ isChecking = TRUE
    /\ isRedirecting = FALSE
    /\ timer = NoTimer
    /\ inflight = 0
    /\ navTarget = NoNav
    /\ selectedVideo = NoVideo
    /\ via = "none"
    /\ reloadOf = "none"
    /\ NoPlayerYet

Init ==
    /\ variant \in Variants
    /\ \E st \in InitStores : localStorage = st.ls /\ ledger = st.ledger
    /\ FirstRender
    /\ runtime = [hls |-> TRUE, native |-> FALSE, storage |-> "ok", fullscreenApi |-> TRUE]
    /\ mediaSeconds = MaxSeconds
    /\ writer = [k \in {} |-> NoVideo]

-----------------------------------------------------------------------------
(* Page loads *)

\* a fresh document of the portal at address q: React state at its useState
\* defaults, no timer, no request, no pending navigation
LoadPage(q, r) ==
    /\ loc' = "portal"
    /\ query' = q
    /\ phase' = "rendered"
    /\ hasAccess' = FALSE
    /\ isChecking' = TRUE
    /\ isRedirecting' = FALSE
    /\ timer' = NoTimer
    /\ inflight' = 0
    /\ navTarget' = NoNav
    /\ selectedVideo' = NoVideo
    /\ via' = "none"
    /\ reloadOf' = r

\* the visitor opens the portal at an address of their choice
Visit(q) ==
    /\ loads < MaxLoads
    /\ loads' = loads + 1
    /\ LoadPage(q, "none")
    /\ UNCHANGED <<variant, localStorage, now, ticks, ledger>>
    /\ UNCHANGED playerVars
    /\ uncaught' = NoFault

\* the visitor reloads the portal at its visible address
Reload ==
    /\ loc = "portal"
    /\ loads < MaxLoads
    /\ loads' = loads + 1
    /\ LoadPage(query, via)
    /\ UNCHANGED <<variant, localStorage, now, ticks, ledger>>
    /\ UNCHANGED playerVars
    /\ uncaught' = NoFault

\* the shortener sends the visitor back to the return URL
ReturnFromShortener ==
    /\ loc = "shortener"
    /\ LoadPage(returnUrlQuery, "none")
    /\ UNCHANGED <<variant, localStorage, now, ticks, loads, ledger>>
    /\ UNCHANGED playerVars
    /\ uncaught' = NoFault

-----------------------------------------------------------------------------
(* AccessControl *)

\* the useEffect(() => {...}, []) of AccessControl; the setItem of the
\* handshake branch is outside any try: when it throws the effect ends there
\* (what React does with the tree after that is not in these sources)
MountEffect ==
    /\ phase = "rendered"
    /\ phase' = "mounted"
    /\ IF fromShortener(query) /\ setItemThrows(runtime)
       THEN UNCHANGED <<localStorage, ledger, hasAccess, isChecking, query, timer, via>>
       ELSE IF fromShortener(query)
       THEN /\ localStorage' = writeGrant(localStorage, now)
            /\ ledger' = Grant(now)
            /\ hasAccess' = TRUE
            /\ isChecking' = FALSE
            /\ query' = replaceState(query)
            /\ timer' = timer
            /\ via' = "handshake"
       ELSE LET accessValid == ~getItemThrows(runtime) /\ checkAccess(localStorage, now)
            IN  /\ hasAccess' = accessValid
                /\ isChecking' = FALSE
                /\ timer' = IF ~accessValid
                            THEN [pending |-> TRUE, due |-> now + autoRedirectDelay]
                            ELSE timer
                /\ via' = "ttl"
                /\ UNCHANGED <<localStorage, ledger, query>>
    /\ UNCHANGED <<variant, now, ticks, loads, loc, isRedirecting, inflight,
                   navTarget, selectedVideo, reloadOf>>
    /\ UNCHANGED playerVars
    /\ uncaught' = IF fromShortener(query) /\ setItemThrows(runtime)
                   THEN "exception" ELSE NoFault

\* redirectToShortener up to `await fetch(apiUrl)`; a state setter of an
\* unmounted component does nothing
redirectToShortenerStart ==
    /\ isRedirecting' = IF phase = "mounted" THEN TRUE ELSE isRedirecting
    /\ inflight' = inflight + 1

\* the timer callback run without waiting for the delay
TimerFireEarly ==
    /\ phase \in {"mounted", "unmounted"}
    /\ timer.pending
    /\ timer' = [timer EXCEPT !.pending = FALSE]
    /\ redirectToShortenerStart
    /\ UNCHANGED <<variant, localStorage, now, ticks, loads, loc, query, phase,
                   hasAccess, isChecking, navTarget, selectedVideo, ledger,
                   via, reloadOf>>
    /\ UNCHANGED playerVars
    /\ uncaught' = NoFault

\* the callback of setTimeout(..., 2000); the effect returns no cleanup, so
\* the timer lives until it fires or the document is unloaded
TimerFire ==
    /\ phase \in {"mounted", "unmounted"}
    /\ timer.pending
    /\ now >= timer.due
    /\ timer' = [timer EXCEPT !.pending = FALSE]
    /\ redirectToShortenerStart
    /\ UNCHANGED <<variant, localStorage, now, ticks, loads, loc, query, phase,
                   hasAccess, isChecking, navTarget, selectedVideo, ledger,
                   via, reloadOf>>
    /\ UNCHANGED playerVars
    /\ uncaught' = NoFault

\* onClick of the "Get 24-Hour Access" button, disabled={isRedirecting}
Click ==
    /\ phase = "mounted"
    /\ View = "gate"
    /\ ~isRedirecting
    /\ redirectToShortenerStart
    /\ UNCHANGED <<variant, localStorage, now, ticks, loads, loc, query, phase,
                   hasAccess, isChecking, timer, navTarget, selectedVideo, ledger,
                   via, reloadOf>>
    /\ UNCHANGED playerVars
    /\ uncaught' = NoFault

\* redirectToShortener from the shortener's answer to the end of `finally`;
\* a setItem that throws in the fallback of part_002 throws again in its
\* catch block, and the function ends in `finally` without setHasAccess
redirectToShortenerResume(o) ==
    /\ phase \in {"mounted", "unmounted"}
    /\ inflight > 0
    /\ inflight' = inflight - 1
    /\ LET r == resume(variant, o)
       IN  /\ navTarget' = IF r.nav # NoNav THEN r.nav ELSE navTarget
           /\ IF r.grant /\ ~setItemThrows(runtime)
              THEN /\ localStorage' = writeGrant(localStorage, now)
                   /\ ledger' = Grant(now)
                   /\ hasAccess' = IF phase = "mounted" THEN TRUE ELSE hasAccess
                   /\ via' = IF phase = "mounted" THEN "fallback" ELSE via
              ELSE UNCHANGED <<localStorage, ledger, hasAccess, via>>
    /\ isRedirecting' = IF phase = "mounted" THEN FALSE ELSE isRedirecting
    /\ UNCHANGED <<variant, now, ticks, loads, loc, query, phase, isChecking,
                   timer, selectedVideo, reloadOf>>
    /\ UNCHANGED playerVars
    /\ uncaught' = IF resume(variant, o).grant /\ setItemThrows(runtime)
                   THEN "rejection" ELSE NoFault

\* the navigation started by an assignment to window.location.href takes
\* place: the document is unloaded with its timers and callbacks
\* (homepageUrl is taken to be the portal's own address, so the return URL
\* loads the portal with the completion marker)
Navigate ==
    /\ phase \in {"mounted", "unmounted"}
    /\ navTarget # NoNav
    /\ IF navTarget = RETURN_URL
       THEN LoadPage(returnUrlQuery, "none")
       ELSE /\ loc' = "shortener"
            /\ phase' = "gone"
            /\ timer' = NoTimer
            /\ inflight' = 0
            /\ navTarget' = NoNav
            /\ selectedVideo' = NoVideo
            /\ UNCHANGED <<query, hasAccess, isChecking, isRedirecting, via, reloadOf>>
    /\ UNCHANGED <<variant, localStorage, now, ticks, loads, ledger>>
    /\ UNCHANGED playerVars
    /\ uncaught' = NoFault

\* the host router takes the page that holds the gate off the screen
Unmount ==
    /\ phase = "mounted"
    /\ phase' = "unmounted"
    /\ selectedVideo' = NoVideo
    /\ UNCHANGED <<variant, localStorage, now, ticks, loads, loc, query, hasAccess,
                   isChecking, isRedirecting, timer, inflight, navTarget, ledger,
                   via, reloadOf>>
    /\ UNCHANGED playerVars
    /\ uncaught' = NoFault

-----------------------------------------------------------------------------
(* VideoPlayer *)

\* what the player shows: the error overlay with Retry whenever error is
\* set, else the loading overlay while isLoading, else the video alone
LoadState(pl) ==
    IF pl.error # NoError THEN "Failed" ELSE IF pl.isLoading THEN "Loading" ELSE "Ready"

\* a cleanup that leaves the engine running
cleanupKeep(ref) == ref

\* the effect's cleanup: if (hlsRef.current) hlsRef.current.destroy()
cleanup(ref) == IF ref.state = "active" THEN [ref EXCEPT !.state = "destroyed"] ELSE ref

\* engines left running once the cleanup has run on ref
afterCleanup(ref, n) == IF ref.state = "active" /\ cleanup(ref).state # "active" THEN n - 1 ELSE n

\* path selection that starts the engine without asking whether it is supported
choosePathEngineAnyway(rt) == IF rt.native /\ ~rt.hls THEN "native" ELSE "engine"

\* path selection that prefers the element's native support to the engine
choosePathNativeFirst(rt) ==
    IF rt.native THEN "native" ELSE IF rt.hls THEN "engine" ELSE "unsupported"

\* if (Hls.isSupported()) ... else if (video.canPlayType(...)) ... else ...
choosePath(rt) ==
    IF rt.hls THEN "engine" ELSE IF rt.native THEN "native" ELSE "unsupported"

\* the body of useEffect(..., [url, videoId]) for the url of lecture v, run
\* with React state pl, element el, hlsRef.current ref and n engines running
Effect(v, pl, el, ref, n) ==
    LET blocked == getItemThrows(runtime)
        savedProgress == getItem(localStorage, keyOf[v])
        restore == ~blocked /\ ItemTruthy(savedProgress)
        t == parseFloat(savedProgress.str)
        elSought == IF restore THEN setCurrentTime(el, t.val) ELSE el
        path == choosePath(runtime)
    IN  /\ restoredFrom' = IF restore THEN writer[keyOf[v]] ELSE NoVideo
        /\ lastWriteAt' = NoPos
        /\ toast' = playCatch(~blocked /\ ~(restore /\ t.nan) /\ path # "unsupported"
                                      /\ el.playPromise)
        /\ lastControl' = NoControl
        /\ uncaught' = IF blocked \/ (restore /\ t.nan) THEN "exception" ELSE NoFault
        /\ IF blocked \/ (restore /\ t.nan)
           THEN \* getItem throws, or assigning NaN to video.currentTime throws:
                \* the effect ends here
                /\ video' = el
                /\ hlsRef' = ref
                /\ activeEngines' = n
                /\ player' = pl
           ELSE /\ video' = IF path = "unsupported" THEN elSought
                            ELSE loadMedia(elSought, v, path)
                /\ hlsRef' = IF path = "engine" THEN NewEngine ELSE ref
                /\ activeEngines' = IF path = "engine" THEN n + 1 ELSE n
                /\ player' = IF path = "unsupported"
                             THEN [pl EXCEPT !.error = UNSUPPORTED_ERROR, !.isLoading = FALSE]
                             ELSE pl

\* HomePage renders <VideoPlayer url={selectedVideo.link}>: first render with
\* the useState defaults on a new element, then the effect
VideoPlayerMount ==
    /\ View = "children"
    /\ selectedVideo # NoVideo
    /\ ~player.mounted
    /\ Effect(selectedVideo, NewPlayer(selectedVideo), NewVideo, NoEngine, activeEngines)
    /\ pendingEvent' = "none"
    /\ startedBy' = "mount"
    /\ UNCHANGED <<gateVars, localStorage, selectedVideo, envVars, writer>>

\* React unmounts the VideoPlayer: the cleanup runs, state and element go
VideoPlayerUnmount ==
    /\ player' = NoPlayer
    /\ video' = NewVideo
    /\ hlsRef' = cleanup(hlsRef)
    /\ activeEngines' = afterCleanup(hlsRef, activeEngines)
    /\ pendingEvent' = "none"
    /\ UNCHANGED <<envVars, lastWriteAt, writer, restoredFrom, startedBy>>
    /\ toast' = NoToast /\ lastControl' = NoControl /\ uncaught' = NoFault

\* the mounted VideoPlayer is rendered with the url of another lecture: the
\* dependency [url, videoId] changes, the cleanup runs and then the effect,
\* on the same element and with the React state kept
UrlChange(v) ==
    /\ player.mounted
    /\ v # player.url
    /\ selectedVideo' = v
    /\ Effect(v, [player EXCEPT !.url = v], video, cleanup(hlsRef),
              afterCleanup(hlsRef, activeEngines))
    /\ startedBy' = "url"
    /\ UNCHANGED <<gateVars, localStorage, envVars, writer, pendingEvent>>

\* hls.levels.map((level, index) => ({ height: level.height, index }))
mapLevels(levels) == [i \in 1..Len(levels) |-> [height |-> levels[i], index |-> i - 1]]

\* q with the level x put before the first level lower than x
RECURSIVE insertLevel(_, _)
insertLevel(q, x) ==
    IF q = <<>> THEN <<x>>
    ELSE IF Head(q).height < x.height THEN <<x>> \o q
    ELSE <<Head(q)>> \o insertLevel(Tail(q), x)

\* Array.prototype.sort((a, b) => b.height - a.height): stable, descending
RECURSIVE sortDescending(_)
sortDescending(q) ==
    IF q = <<>> THEN <<>>
    ELSE insertLevel(sortDescending(SubSeq(q, 1, Len(q) - 1)), q[Len(q)])

\* a render that lists the levels without sorting them
sortLevelsNot(q) == q

\* the render that follows setQualityLevels sorts the state array in place:
\* qualityLevels.sort(...) in the JSX of the quality list
sortLevels(q) == sortDescending(q)

\* an engine that goes on loading the manifest after a fatal error
mayParseAfterFatal(ref) == ref.state = "active" /\ ~ref.parsed

\* the engine emits MANIFEST_PARSED once per loadSource, and not after a
\* fatal error, which stops its loading
mayParse(ref) == ref.state = "active" /\ ~ref.parsed /\ ~ref.fatal

\* hls.on(Hls.Events.MANIFEST_PARSED, ...): the engine has read the manifest
onManifestParsed(levels) ==
    /\ mayParse(hlsRef)
    /\ hlsRef' = [hlsRef EXCEPT !.parsed = TRUE, !.levels = levels]
    /\ player' = [player EXCEPT
                    !.isLoading = FALSE,
                    !.error = NoError,
                    !.qualityLevels = sortLevels(mapLevels(levels)),
                    !.currentQuality = AUTO]
    /\ UNCHANGED <<gateVars, localStorage, selectedVideo, envVars, video, activeEngines,
                   pendingEvent, lastWriteAt, writer, restoredFrom, startedBy>>
    /\ toast' = NoToast /\ lastControl' = NoControl /\ uncaught' = NoFault

\* an ERROR handler that does not look at data.fatal
errorHandlerAnyError(pl, fatal) == [pl EXCEPT !.error = LOAD_ERROR, !.isLoading = FALSE]

\* the ERROR handler: if (data.fatal) { setError(...); setIsLoading(false) }
errorHandler(pl, fatal) ==
    IF fatal THEN [pl EXCEPT !.error = LOAD_ERROR, !.isLoading = FALSE] ELSE pl

\* hls.on(Hls.Events.ERROR, ...): the engine reports an error; after a fatal
\* one it has stopped loading
onHlsError(fatal) ==
    /\ hlsRef.state = "active"
    /\ hlsRef' = IF fatal THEN [hlsRef EXCEPT !.fatal = TRUE] ELSE hlsRef
    /\ player' = errorHandler(player, fatal)
    /\ UNCHANGED <<gateVars, localStorage, selectedVideo, envVars, video, activeEngines,
                   pendingEvent, lastWriteAt, writer, restoredFrom, startedBy>>
    /\ toast' = NoToast /\ lastControl' = NoControl /\ uncaught' = NoFault

\* the 'loadeddata' listener of the native path
onLoadedData ==
    /\ video.attach = "native"
    /\ video.readyState = "metadata"
    /\ ~video.failed
    /\ video' = [video EXCEPT !.readyState = "data"]
    /\ player' = [player EXCEPT !.isLoading = FALSE, !.error = NoError]
    /\ UNCHANGED <<gateVars, localStorage, selectedVideo, envVars, hlsRef, activeEngines,
                   pendingEvent, lastWriteAt, writer, restoredFrom, startedBy>>
    /\ toast' = NoToast /\ lastControl' = NoControl /\ uncaught' = NoFault

\* the 'error' listener of the native path; the element rejects the pending
\* play promises when it fails to load its source
onMediaError ==
    /\ video.attach = "native"
    /\ ~video.failed
    /\ video' = [video EXCEPT !.failed = TRUE, !.playPromise = FALSE]
    /\ player' = [player EXCEPT !.error = LOAD_ERROR, !.isLoading = FALSE]
    /\ toast' = playCatch(video.playPromise) /\ lastControl' = NoControl /\ uncaught' = NoFault
    /\ UNCHANGED <<gateVars, localStorage, selectedVideo, envVars, hlsRef, activeEngines,
                   pendingEvent, lastWriteAt, writer, restoredFrom, startedBy>>

\* the element reaches HAVE_METADATA (on the engine path once the manifest
\* is parsed) and onLoadedMetadata runs: setDuration(video.duration)
handleLoadedMetadata ==
    /\ video.src # NoVideo
    /\ video.readyState = "nothing"
    /\ ~video.failed
    /\ video.attach = "engine" => hlsRef.state = "active" /\ hlsRef.parsed
    /\ video' = metadataLoaded(video, durationOf(video.src))
    /\ player' = [player EXCEPT !.duration = video'.duration]
    /\ UNCHANGED <<gateVars, localStorage, selectedVideo, envVars, hlsRef, activeEngines,
                   pendingEvent, lastWriteAt, writer, restoredFrom, startedBy>>
    /\ toast' = NoToast /\ lastControl' = NoControl /\ uncaught' = NoFault

\* onTimeUpdate={handleTimeUpdate}: the element reports its position; a
\* setItem that throws ends the handler after setCurrentTime
handleTimeUpdate ==
    /\ player.mounted
    /\ video.src # NoVideo
    /\ LET t == getCurrentTime(video)
           key == keyOf[player.url]
       IN  /\ player' = [player EXCEPT !.currentTime = t]
           /\ IF ShouldSave(t) /\ ~setItemThrows(runtime)
              THEN /\ localStorage' = setItem(localStorage, key, positionToString(t))
                   /\ writer' = setItem(writer, key, player.url)
                   /\ lastWriteAt' = t
              ELSE UNCHANGED <<localStorage, writer, lastWriteAt>>
           /\ uncaught' = IF ShouldSave(t) /\ setItemThrows(runtime)
                          THEN "exception" ELSE NoFault
    /\ UNCHANGED <<gateVars, selectedVideo, envVars, video, hlsRef, activeEngines,
                   pendingEvent, restoredFrom, startedBy>>
    /\ toast' = NoToast /\ lastControl' = NoControl

\* togglePlayPause: video.pause() when isPlaying, else video.play(), which
\* the browser accepts (ok) or refuses; the play or pause event is queued
togglePlayPause(ok) ==
    /\ player.mounted
    /\ LET r == IF player.isPlaying THEN pause(video) ELSE play(video, ok)
       IN  /\ video' = r.el
           /\ pendingEvent' = IF r.event = "none" THEN pendingEvent ELSE r.event
           /\ toast' = playCatch(r.rejected)
    /\ lastControl' = NoControl /\ uncaught' = NoFault
    /\ UNCHANGED <<gateVars, localStorage, selectedVideo, envVars, player, hlsRef,
                   activeEngines, lastWriteAt, writer, restoredFrom, startedBy>>

\* onPlay={() => setIsPlaying(true)}
onPlay ==
    /\ pendingEvent = "play"
    /\ pendingEvent' = "none"
    /\ player' = [player EXCEPT !.isPlaying = TRUE]
    /\ UNCHANGED <<gateVars, localStorage, selectedVideo, envVars, video, hlsRef,
                   activeEngines, lastWriteAt, writer, restoredFrom, startedBy>>
    /\ toast' = NoToast /\ lastControl' = NoControl /\ uncaught' = NoFault

\* onPause={() => setIsPlaying(false)}
onPause ==
    /\ pendingEvent = "pause"
    /\ pendingEvent' = "none"
    /\ player' = [player EXCEPT !.isPlaying = FALSE]
    /\ UNCHANGED <<gateVars, localStorage, selectedVideo, envVars, video, hlsRef,
                   activeEngines, lastWriteAt, writer, restoredFrom, startedBy>>
    /\ toast' = NoToast /\ lastControl' = NoControl /\ uncaught' = NoFault

\* the element plays: its position advances to the next sampled position
Playback ==
    /\ ~video.paused
    /\ video.readyState # "nothing"
    /\ ~video.failed
    /\ video.currentTime < video.duration
    /\ video' = [video EXCEPT !.currentTime = NextSampled(@)]
    /\ UNCHANGED <<gateVars, localStorage, selectedVideo, envVars, player, hlsRef,
                   activeEngines, pendingEvent, lastWriteAt, writer, restoredFrom,
                   startedBy>>
    /\ toast' = NoToast /\ lastControl' = NoControl /\ uncaught' = NoFault

\* a mute button that leaves the element alone
flipMutedNot(el) == el

\* video.muted = !video.muted
flipMuted(el) == [el EXCEPT !.muted = ~el.muted]

\* toggleMute: video.muted = !video.muted; setIsMuted(video.muted)
toggleMute ==
    /\ player.mounted
    /\ video' = flipMuted(video)
    /\ player' = [player EXCEPT !.isMuted = video'.muted]
    /\ toast' = NoToast /\ lastControl' = "toggleMute" /\ uncaught' = NoFault
    /\ UNCHANGED <<gateVars, localStorage, selectedVideo, envVars, hlsRef, activeEngines,
                   pendingEvent, lastWriteAt, writer, restoredFrom, startedBy>>

\* the clicks on the progress bar: the bar is 2 units wide and clickX, the
\* pointer's distance from its left edge, is also taken left and right of it
Clicks == [clickX : {-1, 0, 1, 2, 3}, width : {2}]

\* newTime = (clickX / width) * duration
seekTime(click, d) == (click.clickX * d) \div click.width

\* a seek that does not look at the duration
seekGuardNone(d) == FALSE

\* if (!video || duration === 0) return
seekGuard(d) == d = 0

\* handleSeek, the onClick of the progress bar: video.currentTime = newTime;
\* setCurrentTime(newTime)
handleSeek(click) ==
    /\ player.mounted
    /\ IF seekGuard(player.duration)
       THEN UNCHANGED <<video, player>>
       ELSE LET newTime == seekTime(click, player.duration)
            IN  /\ video' = setCurrentTime(video, newTime)
                /\ player' = [player EXCEPT !.currentTime = newTime]
    /\ toast' = NoToast /\ lastControl' = "handleSeek" /\ uncaught' = NoFault
    /\ UNCHANGED <<gateVars, localStorage, selectedVideo, envVars, hlsRef, activeEngines,
                   pendingEvent, lastWriteAt, writer, restoredFrom, startedBy>>

\* the values changeQuality is called with: auto and the level indices
QualityChoices == {AUTO, 0, 1, 2}

\* a changeQuality that does not ask for an engine
hasEngineAlways(ref) == TRUE

\* if (hlsRef.current)
hasEngine(ref) == ref.state # "null"

\* a quality change that starts the lecture again
selectLevelAndRestart(pl, qualityIndex) ==
    [pl EXCEPT !.currentQuality = qualityIndex, !.currentTime = 0, !.isPlaying = FALSE]

\* setCurrentQuality(qualityIndex)
selectLevel(pl, qualityIndex) == [pl EXCEPT !.currentQuality = qualityIndex]

\* changeQuality: with an engine, hls.currentLevel = qualityIndex;
\* setCurrentQuality(qualityIndex); toast({ title: 'Quality Changed', ... })
changeQuality(qualityIndex) ==
    /\ player.mounted
    /\ IF hasEngine(hlsRef)
       THEN /\ hlsRef' = [hlsRef EXCEPT !.currentLevel = qualityIndex]
            /\ player' = selectLevel(player, qualityIndex)
            /\ toast' = QUALITY_CHANGED
       ELSE /\ UNCHANGED <<hlsRef, player>>
            /\ toast' = NoToast
    /\ lastControl' = "changeQuality" /\ uncaught' = NoFault
    /\ UNCHANGED <<gateVars, localStorage, selectedVideo, envVars, video, activeEngines,
                   pendingEvent, lastWriteAt, writer, restoredFrom, startedBy>>

\* const playbackRates = [0.25, 0.5, 0.75, 1, 1.25, 1.5, 1.75, 2], in hundredths
playbackRates == <<25, 50, 75, 100, 125, 150, 175, 200>>

\* a speed change that leaves the element's rate alone
applyRateNot(el, rate) == el

\* video.playbackRate = rate
applyRate(el, rate) == [el EXCEPT !.playbackRate = rate]

\* changePlaybackRate: video.playbackRate = rate; setPlaybackRate(rate);
\* toast({ title: 'Speed Changed', ... })
changePlaybackRate(rate) ==
    /\ player.mounted
    /\ video' = applyRate(video, rate)
    /\ player' = [player EXCEPT !.playbackRate = rate]
    /\ toast' = SPEED_CHANGED /\ lastControl' = "changePlaybackRate" /\ uncaught' = NoFault
    /\ UNCHANGED <<gateVars, localStorage, selectedVideo, envVars, hlsRef, activeEngines,
                   pendingEvent, lastWriteAt, writer, restoredFrom, startedBy>>

\* toggleFullscreen: with a fullscreen element document.exitFullscreen(),
\* whose conditions of rejection the test has excluded; else
\* video.requestFullscreen(), which the browser grants or rejects (the
\* rejection is caught and logged); where the element has no
\* requestFullscreen the call itself throws a TypeError
toggleFullscreen(granted) ==
    /\ player.mounted
    /\ IF video.fullscreen
       THEN /\ video' = [video EXCEPT !.fullscreen = FALSE]
            /\ uncaught' = NoFault
       ELSE IF ~runtime.fullscreenApi
       THEN /\ video' = video
            /\ uncaught' = "exception"
       ELSE /\ video' = [video EXCEPT !.fullscreen = granted]
            /\ uncaught' = NoFault
    /\ toast' = NoToast /\ lastControl' = "toggleFullscreen"
    /\ UNCHANGED <<gateVars, localStorage, selectedVideo, envVars, player, hlsRef,
                   activeEngines, pendingEvent, lastWriteAt, writer, restoredFrom,
                   startedBy>>

\* a state setter that takes effect whether or not its component is mounted
setStateAlways(pl, next) == next

\* React: a state setter called after its component has unmounted is dropped
setState(pl, next) == IF pl.mounted THEN next ELSE pl

\* the events of the engine and of the element that the player listens to
PlayerEvents == {"MANIFEST_PARSED", "ERROR", "loadeddata", "error", "timeupdate"}

\* which of them still reach a listener of the player after its unmount:
\* hls.destroy() of the cleanup has removed the engine's listeners; the
\* listeners that the native branch added with addEventListener are never
\* removed and the detached element goes on loading; React's own listener
\* for timeupdate stays on the element
reachesListener(e) ==
    CASE e \in {"MANIFEST_PARSED", "ERROR"} -> hlsRef.state = "active"
      [] e \in {"loadeddata", "error"} -> choosePath(runtime) = "native"
      [] e = "timeupdate" -> choosePath(runtime) # "unsupported"

\* an event of the engine or of the element of a player that has been
\* unmounted: the listeners of the effect call their state setters; for
\* timeupdate videoRef.current is null and handleTimeUpdate returns at once
afterUnmount(e) ==
    /\ ~player.mounted
    /\ startedBy # "none"
    /\ reachesListener(e)
    /\ player' =
         CASE e \in {"MANIFEST_PARSED", "loadeddata"} ->
                setState(player, [player EXCEPT !.isLoading = FALSE, !.error = NoError])
           [] e \in {"ERROR", "error"} ->
                setState(player, [player EXCEPT !.error = LOAD_ERROR, !.isLoading = FALSE])
           [] e = "timeupdate" -> player
    /\ toast' = NoToast /\ lastControl' = "afterUnmount" /\ uncaught' = NoFault
    /\ UNCHANGED <<gateVars, localStorage, selectedVideo, envVars, video, hlsRef,
                   activeEngines, pendingEvent, lastWriteAt, writer, restoredFrom,
                   startedBy>>

-----------------------------------------------------------------------------
(* HomePage, the protected child *)

\* handleVideoSelect: only a rendered HomePage offers it
handleVideoSelect(v) ==
    /\ View = "children"
    /\ selectedVideo = NoVideo
    /\ selectedVideo' = v
    /\ UNCHANGED <<variant, localStorage, now, ticks, loads, loc, query, phase,
                   hasAccess, isChecking, isRedirecting, timer, inflight, navTarget,
                   ledger, via, reloadOf>>
    /\ UNCHANGED playerVars
    /\ uncaught' = NoFault

\* handleBackToHome: the VideoPlayer, if one is mounted, is unmounted
handleBackToHome ==
    /\ View = "children"
    /\ selectedVideo # NoVideo
    /\ selectedVideo' = NoVideo
    /\ IF player.mounted THEN VideoPlayerUnmount
       ELSE UNCHANGED playerVars /\ uncaught' = NoFault
    /\ UNCHANGED <<variant, localStorage, now, ticks, loads, loc, query, phase,
                   hasAccess, isChecking, isRedirecting, timer, inflight, navTarget,
                   ledger, via, reloadOf>>

-----------------------------------------------------------------------------
(* Time *)

Steps == {1, autoRedirectDelay, twentyFourHours}

Tick(d) ==
    /\ ticks < MaxTicks
    /\ ticks' = ticks + 1
    /\ now' = now + d
    /\ UNCHANGED <<variant, localStorage, loads, loc, query, phase, hasAccess,
                   isChecking, isRedirecting, timer, inflight, navTarget,
                   selectedVideo, ledger, via, reloadOf>>
    /\ UNCHANGED playerVars
    /\ uncaught' = NoFault

-----------------------------------------------------------------------------
Next ==
    \/ \E q \in Queries : Visit(q)
    \/ Reload
    \/ ReturnFromShortener
    \/ MountEffect
    \/ TimerFire
    \/ Click
    \/ \E o \in Outcomes : redirectToShortenerResume(o)
    \/ Navigate
    \/ Unmount
    \/ \E v \in Videos : handleVideoSelect(v)
    \/ handleBackToHome
    \/ \E d \in Steps : Tick(d)

Spec == Init /\ [][Next]_vars

\* the browser's event loop runs a due timer callback, delivers the answer
\* of a request, carries out a started navigation and runs the mount effect
\* The liveness properties are checked from the first page loads whose
\* address is the bare path or the return URL and whose store is not corrupt.
FairInit ==
    /\ Init
    /\ ledger.kind # "corrupt"
    /\ query \in {{}, returnUrlQuery}

FairSpec ==
    /\ FairInit /\ [][Next]_vars
    /\ WF_vars(TimerFire)
    /\ WF_vars(\E o \in Outcomes : redirectToShortenerResume(o))
    /\ WF_vars(Navigate)
    /\ WF_vars(MountEffect)

-----------------------------------------------------------------------------
(* The player behind an open gate *)

\* a progress record that an earlier session of a lecture may have left:
\* the position 10.5 s, which handleTimeUpdate saves
SavedPositions == {10 * TicksPerSecond + 1}

InitProgress ==
    {[ls |-> EmptyStorage, writer |-> [k \in {} |-> NoVideo]]}
    \cup {[ls |-> [k \in {keyOf[v]} |-> positionToString(t)],
           writer |-> [k \in {keyOf[v]} |-> v]] : v \in Videos, t \in SavedPositions}

\* The gate has granted access on a grant written at StartNow and HomePage
\* shows the catalogue; the browser has any of the media capabilities.
OpenGate ==
    /\ variant = DirectRedirect
    /\ \E pr \in InitProgress :
          /\ localStorage = writeGrant(pr.ls, StartNow)
          /\ writer = pr.writer
    /\ ledger = Grant(StartNow)
    /\ now = StartNow
    /\ ticks = 0
    /\ loads = 0
    /\ loc = "portal"
    /\ query = {}
    /\ phase = "mounted"
    /\ hasAccess = TRUE
    /\ isChecking = FALSE
    /\ isRedirecting = FALSE
    /\ timer = NoTimer
    /\ inflight = 0
    /\ navTarget = NoNav
    /\ selectedVideo = NoVideo
    /\ via = "ttl"
    /\ reloadOf = "none"
    /\ NoPlayerYet
    /\ runtime \in [hls : BOOLEAN, native : BOOLEAN, storage : {"ok"},
                   fullscreenApi : {TRUE}]

PlayerInit == OpenGate /\ mediaSeconds = MaxSeconds

PlayerNext ==
    \/ \E v \in Videos : handleVideoSelect(v)
    \/ VideoPlayerMount
    \/ handleBackToHome
    \/ \E levels \in Manifests : onManifestParsed(levels)
    \/ \E fatal \in BOOLEAN : onHlsError(fatal)
    \/ onLoadedData
    \/ onMediaError
    \/ handleLoadedMetadata
    \/ handleTimeUpdate
    \/ \E ok \in BOOLEAN : togglePlayPause(ok)
    \/ onPlay
    \/ onPause
    \/ Playback

\* the player as HomePage drives it: lectures are selected from the catalogue
\* and left by handleBackToHome
PlayerSpec == PlayerInit /\ [][PlayerNext]_vars

\* the player driven by any parent: its url prop may change while it is
\* mounted; the lectures are short
SessionInit == OpenGate /\ mediaSeconds = ShortSeconds

SessionNext ==
    \/ PlayerNext
    \/ \E v \in Videos : UrlChange(v)

SessionSpec == SessionInit /\ [][SessionNext]_vars

\* the player with its control bar in use, on short lectures: the mute
\* button and the progress bar
ControlInit == OpenGate /\ mediaSeconds = ShortSeconds

ControlNext ==
    \/ PlayerNext
    \/ toggleMute
    \/ \E click \in Clicks : handleSeek(click)

ControlSpec == ControlInit /\ [][ControlNext]_vars

\* the player with the quality list of its settings in use
QualityNext ==
    \/ PlayerNext
    \/ \E q \in QualityChoices : changeQuality(q)

QualitySpec == ControlInit /\ [][QualityNext]_vars

\* the player with the speed list of its settings in use, in a browser that
\* has stored no progress yet
SpeedInit == ControlInit /\ DOMAIN writer = {}

SpeedNext ==
    \/ PlayerNext
    \/ \E i \in DOMAIN playbackRates : changePlaybackRate(playbackRates[i])

SpeedSpec == SpeedInit /\ [][SpeedNext]_vars

\* the player with the events that its engine and its element raise after
\* it has been unmounted
DetachedNext ==
    \/ PlayerNext
    \/ \E e \in PlayerEvents : afterUnmount(e)

DetachedSpec == ControlInit /\ [][DetachedNext]_vars

\* The portal from the first render of a page load in a browser whose
\* storage is at fault: every access throws; every write throws, whatever an
\* earlier visit has stored; or the storage works and holds, with a grant, a
\* progress record that the player has not written.
Faults ==
    {[storage |-> "blocked", ls |-> EmptyStorage, ledger |-> NoGrant,
      writer |-> [k \in {} |-> NoVideo]]}
    \cup {[storage |-> "full", ls |-> st.ls, ledger |-> st.ledger,
           writer |-> [k \in {} |-> NoVideo]] : st \in InitStores}
    \cup {[storage |-> "ok",
           ls |-> writeGrant([k \in {keyOf[v]} |-> c], StartNow),
           ledger |-> Grant(StartNow),
           writer |-> [k \in {keyOf[v]} |-> v]] : v \in Videos, c \in CorruptValues}

FaultInit ==
    /\ variant \in Variants
    /\ \E f \in Faults :
          /\ localStorage = f.ls
          /\ ledger = f.ledger
          /\ runtime = [hls |-> TRUE, native |-> FALSE, storage |-> f.storage,
                       fullscreenApi |-> TRUE]
          /\ writer = f.writer
    /\ FirstRender
    /\ mediaSeconds = ShortSeconds

FaultNext ==
    \/ ReturnFromShortener
    \/ MountEffect
    \/ TimerFire
    \/ Click
    \/ \E o \in Outcomes : redirectToShortenerResume(o)
    \/ Navigate
    \/ \E d \in Steps : Tick(d)
    \/ \E v \in Videos : handleVideoSelect(v)
    \/ VideoPlayerMount
    \/ handleBackToHome
    \/ \E levels \in Manifests : onManifestParsed(levels)
    \/ handleLoadedMetadata
    \/ handleTimeUpdate
    \/ \E ok \in BOOLEAN : togglePlayPause(ok)
    \/ onPlay
    \/ Playback

FaultSpec == FaultInit /\ [][FaultNext]_vars

\* The portal from the first render of a first visit, in a browser whose
\* storage works, with what enters from outside: the shortener's answers,
\* the browser's answers to play and fullscreen requests, the errors of the
\* engine and of the element.
BoundaryInit ==
    /\ variant \in Variants
    /\ localStorage = EmptyStorage
    /\ ledger = NoGrant
    /\ writer = [k \in {} |-> NoVideo]
    /\ FirstRender
    /\ query \in {{}, returnUrlQuery}
    /\ runtime \in [hls : BOOLEAN, native : BOOLEAN, storage : {"ok"},
                   fullscreenApi : BOOLEAN]
    /\ mediaSeconds = ShortSeconds

BoundaryNext ==
    \/ ReturnFromShortener
    \/ MountEffect
    \/ TimerFire
    \/ Click
    \/ \E o \in Outcomes : redirectToShortenerResume(o)
    \/ Navigate
    \/ \E d \in Steps : Tick(d)
    \/ \E v \in Videos : handleVideoSelect(v)
    \/ VideoPlayerMount
    \/ handleBackToHome
    \/ \E levels \in Manifests : onManifestParsed(levels)
    \/ \E fatal \in BOOLEAN : onHlsError(fatal)
    \/ onLoadedData
    \/ onMediaError
    \/ handleLoadedMetadata
    \/ \E ok \in BOOLEAN : togglePlayPause(ok)
    \/ onPlay
    \/ onPause
    \/ \E granted \in BOOLEAN : toggleFullscreen(granted)

BoundarySpec == BoundaryInit /\ [][BoundaryNext]_vars

-----------------------------------------------------------------------------
(* Properties of the access gate *)

\* the validity window of a grant: 24 hours in milliseconds
GRANT_TTL == 86400000

\* the step in which the mount effect runs
MountStep == phase = "rendered" /\ phase' = "mounted"

\* C1: on a page load without the completion marker, with a grant of
\* timestamp t stored or nothing stored, the gate resolves to Granted if and
\* only if a grant is stored and now - t < 24h; at now - t = 24h exactly, and
\* with nothing stored, it resolves to Denied.
C1_GrantedIffWithinTtl ==
    [][(MountStep /\ ~fromShortener(query) /\ ledger.kind # "corrupt")
        => /\ GateState' \in {"Granted", "Denied"}
           /\ GateState' = "Granted"
                <=> (ledger.kind = "grant" /\ now - ledger.at < GRANT_TTL)]_vars

\* a page load has just denied a grant that is exactly 24h old
C1_Witness ==
    /\ phase = "mounted" /\ via = "ttl" /\ GateState = "Denied"
    /\ ledger.kind = "grant" /\ now - ledger.at = GRANT_TTL
    /\ timer.pending /\ timer.due = now + autoRedirectDelay

\* C2: a page load whose address carries from_shortener=true ends in Granted,
\* with a grant of the current time stored and the marker gone from the
\* visible address, whatever was stored before.
C2_HandshakeGrants ==
    [][(MountStep /\ fromShortener(query))
        => /\ GateState' = "Granted"
           /\ GRANT_KEY \in DOMAIN localStorage'
           /\ parseInt(localStorage'[GRANT_KEY]) = Num(now)
           /\ ~fromShortener(query')
           /\ \A kv \in query' : kv[1] # MARKER_KEY]_vars

\* a handshake page load has granted access over an expired grant
C2_Witness ==
    /\ phase = "mounted" /\ via = "handshake" /\ GateState = "Granted"
    /\ ledger = Grant(now) /\ now >= StartNow + GRANT_TTL - 1
    /\ loads > 0

\* the shortener's answer is an object with neither short-URL field set
MissingBoth(o) == o.kind = "object" /\ ~Truthy(o.shortenedUrl) /\ ~Truthy(o.shorturl)

\* the request failed: the fetch was rejected or the body is not JSON
Failed(o) == o.kind \in {"reject", "badjson"}

\* C3: when the shortener's answer carries neither short-URL field, the
\* redirect flow ends with a grant of the current time stored and the gate
\* in Granted.
C3_MissingFieldsEndGranted ==
    [][\A o \in Outcomes :
        (phase = "mounted" /\ MissingBoth(o) /\ redirectToShortenerResume(o))
        => /\ GateState' = "Granted"
           /\ ledger' = Grant(now)
           /\ localStorage' = writeGrant(localStorage, now)]_vars

\* C4: when the shortener request fails, the redirect flow stores a grant of
\* the current time and the gate becomes Granted in the same page load.
C4_FailureGrantsInPlace ==
    [][\A o \in Outcomes :
        (phase = "mounted" /\ Failed(o) /\ redirectToShortenerResume(o))
        => /\ GateState' = "Granted"
           /\ ledger' = Grant(now)
           /\ localStorage' = writeGrant(localStorage, now)
           /\ phase' = "mounted" /\ navTarget' = navTarget]_vars


C6_AtMostOneRequest == inflight <= 1

\* the step in which the auto-redirect timer starts a redirect attempt
TimerStep == timer.pending /\ ~timer'.pending /\ inflight' = inflight + 1

\* C7: the auto-redirect timer starts no redirect attempt after the gate has
\* become Granted or after the gate has unmounted.
C7_NoStaleTimer ==
    [][TimerStep => (phase = "mounted" /\ GateState # "Granted")]_vars

\* the fixed delay of the auto-redirect: 2 seconds in milliseconds
REDIRECT_DELAY == 2000

\* C8: a page load that resolves to Denied shows the gate view at once, with
\* no request started, and arms the auto-redirect for 2 seconds later; a
\* redirect attempt starts either from the timer, not before those 2 seconds
\* have elapsed, or from a click on the enabled button; a timer that has come
\* due does start the attempt unless the page is left first.
C8_AutoRedirectAfterDelay ==
    /\ [][(MountStep /\ GateState' = "Denied")
            => /\ View' = "gate" /\ inflight' = 0
               /\ timer'.pending /\ timer'.due = now + REDIRECT_DELAY]_vars
    /\ [][(inflight' = inflight + 1)
            => \/ TimerStep /\ now >= timer.due
               \/ View = "gate" /\ ~isRedirecting /\ timer' = timer]_vars
    /\ \A n \in 0..MaxLoads :
        (loads = n /\ timer.pending /\ now >= timer.due)
        ~> (loads # n \/ ~timer.pending)

\* the timer has started the redirect attempt exactly 2 seconds after a
\* page load that found a grant expired
C8_Witness ==
    /\ phase = "mounted" /\ via = "ttl" /\ GateState = "Redirecting"
    /\ ~timer.pending /\ timer.due = now /\ inflight = 1
    /\ ledger.kind = "grant"

\* C9: the children of the gate are rendered only while the gate is Granted;
\* Checking renders the loading view, Denied and Redirecting render the gate
\* view; a video is selected (a player exists) only under a Granted gate.
C9_ChildrenOnlyWhenGranted ==
    /\ View = "children" => GateState = "Granted"
    /\ phase \in {"rendered", "mounted"} =>
        /\ GateState = "Checking" => View = "loading"
        /\ GateState \in {"Denied", "Redirecting"} => View = "gate"
        /\ GateState = "Granted" => View = "children"
    /\ selectedVideo # NoVideo => (phase = "mounted" /\ GateState = "Granted")

\* a video is selected under a gate granted by the fallback
C9_Witness ==
    /\ selectedVideo # NoVideo /\ View = "children" /\ via = "fallback"

\* C10 as stated: reloading the address left by a handshake page load writes
\* nothing and resolves to Granted through the TTL check.
C10_ReloadGranted ==
    [][(MountStep /\ reloadOf = "handshake")
        => /\ localStorage' = localStorage
           /\ via' = "ttl"
           /\ GateState' = "Granted"]_vars

\* C10 amended: reloading the address left by a handshake page load writes
\* nothing and resolves through the TTL check: Granted if less than 24h have
\* passed since the handshake's grant, Denied otherwise.
C10_ReloadResolvesByTtl ==
    [][(MountStep /\ reloadOf = "handshake")
        => /\ localStorage' = localStorage /\ ledger' = ledger
           /\ via' = "ttl"
           /\ GateState' \in {"Granted", "Denied"}
           /\ GateState' = "Granted" <=> now - ledger.at < GRANT_TTL]_vars

\* the reload of a handshake page has resolved to Granted by the TTL check,
\* some time after the handshake
C10_Witness ==
    /\ phase = "mounted" /\ reloadOf = "handshake" /\ via = "ttl"
    /\ GateState = "Granted" /\ now > ledger.at

\* In the revision that falls back to a local grant (part_002) the two
\* statements above hold.
LocalGrantRevisionFailsOpen ==
    [][\A o \in Outcomes :
        (variant = LocalGrant /\ phase = "mounted" /\ (MissingBoth(o) \/ Failed(o))
            /\ redirectToShortenerResume(o))
        => /\ GateState' = "Granted"
           /\ ledger' = Grant(now)
           /\ localStorage' = writeGrant(localStorage, now)
           /\ phase' = "mounted" /\ navTarget' = navTarget]_vars

\* the shortener's answer is an object with a short URL under one of the two
\* accepted field names
HasShort(o) == o.kind = "object" /\ (Truthy(o.shortenedUrl) \/ Truthy(o.shorturl))

\* C11: when the shortener's answer carries a short URL under shortenedUrl or
\* shorturl, whatever its other fields, the gate navigates to that short URL
\* and writes no local grant.
C11_EitherFieldNavigates ==
    [][\A o \in Outcomes :
        (HasShort(o) /\ redirectToShortenerResume(o))
        => /\ navTarget' = OrElse(o.shortenedUrl, o.shorturl)
           /\ localStorage' = localStorage /\ ledger' = ledger]_vars

\* the string stored under the grant key, if any
StoredGrant(ls) == IF GRANT_KEY \in DOMAIN ls THEN {ls[GRANT_KEY]} ELSE {}

\* the step in which the handshake branch of the mount effect runs
HandshakeStep == MountStep /\ fromShortener(query)

\* the step in which a redirect flow takes the local-grant fallback
FallbackStep ==
    /\ variant = LocalGrant
    /\ \E o \in Outcomes :
        (Throws(o) \/ MissingBoth(o)) /\ redirectToShortenerResume(o)

\* C12: the stored grant changes only in a handshake page load or a
\* fail-open fallback, and then to the current time; it is never removed and
\* its timestamp never decreases; a mount without the marker writes nothing.
C12_GrantWrittenOnlyOnVerification ==
    [][/\ GRANT_KEY \in DOMAIN localStorage => GRANT_KEY \in DOMAIN localStorage'
       /\ StoredGrant(localStorage') # StoredGrant(localStorage)
            => /\ HandshakeStep \/ FallbackStep
               /\ parseInt(localStorage'[GRANT_KEY]) = Num(now)
       /\ (GRANT_KEY \in DOMAIN localStorage /\ ~parseInt(localStorage[GRANT_KEY]).nan)
            => /\ ~parseInt(localStorage'[GRANT_KEY]).nan
               /\ parseInt(localStorage'[GRANT_KEY]).val >= parseInt(localStorage[GRANT_KEY]).val
       /\ (MountStep /\ ~fromShortener(query)) => localStorage' = localStorage]_vars

\* a fallback has overwritten an older grant with a later time
C12_Witness ==
    /\ via = "fallback" /\ ledger = Grant(now) /\ now > StartNow
    /\ parseInt(localStorage[GRANT_KEY]) = Num(now)

-----------------------------------------------------------------------------
(* Properties of the video player *)

\* the stored entries other than the one under key k
Others(ls, k) == [x \in DOMAIN ls \ {k} |-> ls[x]]

\* C13: a time-update event at position t writes the progress record of the
\* current video if and only if floor(t) mod 5 = 0, and the value written
\* then reads back as t; for every other t the store is left as it was; the
\* in-memory current time becomes t on every event.
C13_TimeUpdateWritesOnMultiplesOfFive ==
    [][handleTimeUpdate =>
         LET t == getCurrentTime(video)
             key == keyOf[player.url]
         IN  /\ player'.currentTime = t
             /\ IF (t \div TicksPerSecond) % 5 = 0
                THEN /\ key \in DOMAIN localStorage'
                     /\ parseFloat(localStorage'[key]) = Num(t)
                     /\ Others(localStorage', key) = Others(localStorage, key)
                ELSE localStorage' = localStorage]_vars

\* a time update at 5.5 s has written "5.5"; the in-memory time is 5.5 s
C13_Witness ==
    /\ player.mounted
    /\ lastWriteAt = 5 * TicksPerSecond + 1
    /\ player.currentTime = 5 * TicksPerSecond + 1
    /\ localStorage[keyOf[player.url]] = <<"5", ".", "5">>

\* a time-update step that writes the progress record
ProgressWrite == handleTimeUpdate /\ (getCurrentTime(video) \div TicksPerSecond) % 5 = 0

\* C14: while a video that started at 0 plays, the progress record is written
\* at most once per 5 playback-seconds however many time-update events
\* arrive: no write before 5 s (the two writes up to 12 s are those near 5 s
\* and near 10 s), and every write is at least 5 s after the one before it.
C14_OneWritePerFiveSeconds ==
    [][(ProgressWrite /\ restoredFrom = NoVideo /\ ~video.paused) =>
         /\ getCurrentTime(video) >= 5 * TicksPerSecond
         /\ lastWriteAt # NoPos =>
                getCurrentTime(video) - lastWriteAt >= 5 * TicksPerSecond]_vars

\* the step by which the media element becomes ready
BecomesReady == video.readyState = "nothing" /\ video'.readyState # "nothing"

\* C15: when the player was mounted for a URL under whose key a progress p is
\* stored, the playback position is p at the moment the media becomes ready
\* (before any playback, which needs ready media), on the engine path and on
\* the native path, and p is then still the stored progress.
C15_RestoredPositionWhenReady ==
    [][(BecomesReady /\ startedBy = "mount" /\ restoredFrom # NoVideo) =>
         /\ Num(video'.currentTime) = parseFloat(localStorage[keyOf[player.url]])
         /\ localStorage' = localStorage]_vars

\* lecture1, whose stored progress is "10.5", is ready on the engine path and
\* stands at 10.5 s, paused
C15_Witness ==
    /\ player.mounted /\ restoredFrom = player.url /\ video.attach = "engine"
    /\ video.readyState = "metadata" /\ video.paused /\ ~player.isPlaying
    /\ localStorage[keyOf[player.url]] = <<"1", "0", ".", "5">>
    /\ video.currentTime = 10 * TicksPerSecond + 1

\* C16: the progress key is an injective function of the source URL: the
\* lectures of the catalogue, whose URLs differ, have different keys, so the
\* progress the effect reads for a lecture was written by a session of that
\* same lecture.
C16_ProgressKeyInjective ==
    player.mounted =>
        /\ restoredFrom \in {NoVideo, player.url}
        /\ \A v \in Videos : keyOf[v] = keyOf[player.url] => link(v) = link(player.url)

\* C17: after the player has been unmounted no engine session remains
\* active: the engine its hlsRef holds is destroyed and no engine is running.
C17_NoEngineAfterUnmount ==
    ~player.mounted => hlsRef.state # "active" /\ activeEngines = 0

\* the player was unmounted while its engine, which had parsed the manifest,
\* was active: the engine is destroyed
C17_Witness ==
    /\ ~player.mounted /\ selectedVideo = NoVideo
    /\ hlsRef.state = "destroyed" /\ hlsRef.parsed /\ activeEngines = 0

\* C18: over selections, back navigations and URL changes at most one engine
\* session is active at any time, and the active one is the engine of the
\* current session: every engine of an earlier session, or of an earlier url
\* of this session, was destroyed before the current one was created.
C18_AtMostOneEngine ==
    /\ activeEngines <= 1
    /\ activeEngines = 1 => player.mounted /\ hlsRef.state = "active"

\* the url changed while an engine that had parsed its manifest was active:
\* a new engine, the only one, is active for the new url
C18_Witness ==
    /\ startedBy = "url" /\ player.mounted /\ activeEngines = 1
    /\ hlsRef.state = "active" /\ ~hlsRef.parsed /\ player.qualityLevels # <<>>

\* C19 as stated: when the runtime supports the format natively the source
\* is attached directly, no engine session exists and no quality list is
\* exposed; an engine session exists only when native support is absent.
C19_NativePreferred ==
    player.mounted =>
        /\ runtime.native =>
              /\ video.attach = "native" /\ video.src = player.url
              /\ hlsRef.state # "active" /\ player.qualityLevels = <<>>
        /\ hlsRef.state = "active" => ~runtime.native

\* C19: the engine is used whenever the runtime supports it, also when the
\* format is supported natively; the source is attached directly, with no
\* engine session and no quality list, exactly when the engine is not
\* supported and the format is supported natively.
C19_EngineFirst ==
    player.mounted =>
        /\ runtime.hls =>
              /\ video.attach = "engine" /\ video.src = player.url
              /\ hlsRef.state = "active" /\ activeEngines = 1
        /\ (~runtime.hls /\ runtime.native) =>
              /\ video.attach = "native" /\ video.src = player.url
              /\ hlsRef.state = "null" /\ activeEngines = 0
              /\ player.qualityLevels = <<>>
        /\ (~runtime.hls /\ ~runtime.native) =>
              /\ video.attach = "none" /\ hlsRef.state = "null" /\ activeEngines = 0

\* a runtime with the engine and with native support plays through the
\* engine and shows its quality list
C19_Witness ==
    /\ player.mounted /\ runtime.hls /\ runtime.native
    /\ video.attach = "engine" /\ hlsRef.state = "active" /\ hlsRef.parsed
    /\ Len(player.qualityLevels) = 3 /\ ~player.isLoading

\* C20: on the engine path a fatal engine error moves the session to Failed
\* (the error message is set, loading is cleared); a non-fatal engine error
\* leaves the load state, the error message and every other field of the
\* session, its element, its engine and the store as they were.
C20_FatalFailsNonFatalSwallowed ==
    [][/\ onHlsError(TRUE) =>
             /\ player'.error = "Failed to load video. Please try again."
             /\ ~player'.isLoading
             /\ LoadState(player') = "Failed"
       /\ onHlsError(FALSE) =>
             /\ LoadState(player') = LoadState(player)
             /\ player' = player
             /\ video' = video /\ hlsRef' = hlsRef /\ activeEngines' = activeEngines
             /\ localStorage' = localStorage /\ selectedVideo' = selectedVideo]_vars

\* a fatal error after the manifest was parsed: the session is Failed
C20_Witness ==
    /\ player.mounted /\ hlsRef.state = "active" /\ hlsRef.parsed /\ hlsRef.fatal
    /\ player.error = LOAD_ERROR /\ ~player.isLoading /\ player.qualityLevels # <<>>
    /\ LoadState(player) = "Failed"

C22_UnsupportedFails ==
    (player.mounted /\ ~runtime.hls /\ ~runtime.native) =>
        /\ player.error = "HLS is not supported in this browser."
        /\ ~player.isLoading
        /\ LoadState(player) = "Failed"
        /\ hlsRef = NoEngine /\ activeEngines = 0
        /\ video.src = NoVideo /\ video.attach = "none" /\ video.readyState = "nothing"

\* a lecture with stored progress is opened in a browser without either
\* capability: Failed, nothing attached
C22_Witness ==
    /\ player.mounted /\ ~runtime.hls /\ ~runtime.native
    /\ restoredFrom # NoVideo /\ player.error = UNSUPPORTED_ERROR /\ video.src = NoVideo

\* the step by which the engine's manifest becomes parsed
ManifestParsedStep == hlsRef.state = "active" /\ ~hlsRef.parsed /\ hlsRef'.parsed

\* C23: on manifest parse the list of quality levels holds exactly the
\* engine's levels, each with its engine index, in descending order of
\* height, and the selected level is auto (-1).
C23_QualityListSortedDescending ==
    [][ManifestParsedStep =>
         LET q == player'.qualityLevels
             lv == hlsRef'.levels
         IN  /\ Len(q) = Len(lv)
             /\ \A i \in 1..Len(lv) :
                    \E j \in 1..Len(q) : q[j] = [height |-> lv[i], index |-> i - 1]
             /\ \A j, k \in 1..Len(q) : j < k => q[j].height >= q[k].height
             /\ player'.currentQuality = -1]_vars

\* the engine's levels 360, 720, 1080 are listed as 1080, 720, 360 with the
\* indices 2, 1, 0
C23_Witness ==
    /\ player.mounted /\ hlsRef.state = "active"
    /\ hlsRef.levels = <<360, 720, 1080>>
    /\ player.qualityLevels = <<[height |-> 1080, index |-> 2],
                                [height |-> 720, index |-> 1],
                                [height |-> 360, index |-> 0]>>
    /\ player.currentQuality = AUTO

\* a step in which the .catch of togglePlayPause runs for a play request whose
\* promise is rejected, the element being neither paused nor reloaded by the
\* step: the browser refuses the request at once, or the element fails to
\* load its source while the request is pending
PlayRejected ==
    /\ toast' = PLAYBACK_ERROR
    /\ player.mounted /\ player'.mounted
    /\ video'.paused = video.paused
    /\ video'.src = video.src

\* C24: when togglePlayPause is invoked while paused and the play request is
\* rejected, a notification is raised and the controller is as before the
\* invocation: isPlaying is still false, position, rate, mute and quality are
\* unchanged, and no further play request is made (the load state is left
\* out: the failure that rejects a pending request changes it by itself).
C24_RejectedPlayLeavesControllerPaused ==
    [][PlayRejected =>
         /\ ~player'.isPlaying
         /\ player'.currentTime = player.currentTime
         /\ player'.playbackRate = player.playbackRate
         /\ player'.isMuted = player.isMuted
         /\ player'.currentQuality = player.currentQuality
         /\ pendingEvent' = pendingEvent]_vars

\* C25: in every state of a session the controller's isMuted flag equals the
\* element's muted flag, and every toggleMute flips both.
C25_MuteFlagMirrorsElement ==
    [][/\ player.mounted => player.isMuted = video.muted
       /\ player'.mounted => player'.isMuted = video'.muted
       /\ toggleMute => /\ video'.muted = ~video.muted
                        /\ player'.isMuted = ~player.isMuted]_vars

\* a session muted by toggleMute while it plays
C25_Witness ==
    /\ player.mounted /\ lastControl = "toggleMute"
    /\ player.isMuted /\ video.muted
    /\ player.isPlaying /\ ~video.paused

\* a step of handleSeek
SeekStep == player.mounted /\ lastControl' = "handleSeek"

\* C26: a seek invoked while the duration is unknown (0) is a no-op: the
\* element's position, the in-memory current time (the whole controller
\* state) and the stored progress are as before.
C26_SeekWithoutDurationIsNoOp ==
    [][(SeekStep /\ player.duration = 0) =>
         /\ video' = video
         /\ player' = player
         /\ localStorage' = localStorage]_vars

\* the progress bar clicked before the metadata of a lecture with stored
\* progress has arrived: the position to restore is still with the element
C26_Witness ==
    /\ player.mounted /\ lastControl = "handleSeek"
    /\ player.duration = 0 /\ player.currentTime = 0
    /\ video.readyState = "nothing" /\ video.defaultStart = 10 * TicksPerSecond + 1
    /\ restoredFrom # NoVideo

\* C27: for every seek with a known duration d > 0 and every computed
\* fraction, also one below 0 or above 1, the resulting in-memory current
\* time lies in [0, d]; for a fraction within [0, 1] it is fraction * d.
C27_SeekTimeWithinMedia ==
    [][\A click \in Clicks :
          (handleSeek(click) /\ player.duration > 0) =>
              /\ player'.currentTime \in 0..player.duration
              /\ (click.clickX \in 0..click.width) =>
                     player'.currentTime * click.width = click.clickX * player.duration]_vars

\* C28: changeQuality invoked when no engine session exists (native path or
\* unsupported) changes nothing in the session and raises no notification;
\* invoked with an engine session it sets the engine's level and the
\* selected level to the requested value in the same step, -1 being auto.
C28_QualityNeedsEngine ==
    [][\A q \in QualityChoices :
          changeQuality(q) =>
              IF hlsRef.state = "null"
              THEN /\ player' = player /\ video' = video /\ hlsRef' = hlsRef
                   /\ activeEngines' = activeEngines /\ localStorage' = localStorage
                   /\ toast' = NoToast
              ELSE /\ hlsRef'.currentLevel = q
                   /\ player'.currentQuality = q
                   /\ q = -1 => hlsRef'.currentLevel = AUTO /\ player'.currentQuality = AUTO
                   /\ toast' = "Quality Changed"]_vars

\* changeQuality has run in a session of the native path that is ready
C28_Witness ==
    /\ player.mounted /\ lastControl = "changeQuality"
    /\ ~runtime.hls /\ runtime.native
    /\ hlsRef = NoEngine /\ video.attach = "native"
    /\ LoadState(player) = "Ready" /\ player.currentQuality = AUTO
    /\ toast = NoToast

\* C29: selecting a concrete quality level and selecting auto again leave the
\* controller's current time, duration, playback rate and play/pause flag,
\* the element and the stored progress unchanged: each quality selection
\* modifies only the selected level, of the controller and of the engine.
C29_QualityChangesOnlyTheLevel ==
    [][\A q \in QualityChoices :
          changeQuality(q) =>
              /\ player'.currentTime = player.currentTime
              /\ player'.duration = player.duration
              /\ player'.playbackRate = player.playbackRate
              /\ player'.isPlaying = player.isPlaying
              /\ player' = [player EXCEPT !.currentQuality = player'.currentQuality]
              /\ hlsRef' = [hlsRef EXCEPT !.currentLevel = hlsRef'.currentLevel]
              /\ video' = video
              /\ pendingEvent' = pendingEvent
              /\ localStorage' = localStorage]_vars

\* auto selected again in a session that plays, has played past the start
\* and has stored its progress
C29_Witness ==
    /\ player.mounted /\ lastControl = "changeQuality" /\ toast = QUALITY_CHANGED
    /\ hlsRef.state = "active" /\ hlsRef.parsed /\ Len(player.qualityLevels) = 3
    /\ player.currentQuality = AUTO /\ hlsRef.currentLevel = AUTO
    /\ player.isPlaying /\ ~video.paused
    /\ player.currentTime = TicksPerSecond /\ player.duration = ShortSeconds * TicksPerSecond
    /\ lastWriteAt # NoPos

\* the rates of the speed list
Rates == {playbackRates[i] : i \in DOMAIN playbackRates}

\* C30: in every state the session's playback rate is one of 0.25, 0.5, 0.75,
\* 1, 1.25, 1.5, 1.75, 2 and is the element's rate; changePlaybackRate
\* applies the rate to both in the same step; every new session starts at
\* rate 1 whatever the rate of the session before it was.
C30_RateMirrorsElement ==
    [][/\ player.mounted =>
            player.playbackRate \in Rates /\ player.playbackRate = video.playbackRate
       /\ player'.mounted =>
            player'.playbackRate \in Rates /\ player'.playbackRate = video'.playbackRate
       /\ \A rate \in Rates :
            changePlaybackRate(rate) =>
                player'.playbackRate = rate /\ video'.playbackRate = rate
       /\ VideoPlayerMount =>
            player'.playbackRate = 100 /\ video'.playbackRate = 100]_vars

\* the rate 0.25 applied to a session that plays and has restored a position
C30_Witness ==
    /\ player.mounted /\ lastControl = "changePlaybackRate" /\ toast = SPEED_CHANGED
    /\ player.playbackRate = 25 /\ video.playbackRate = 25
    /\ player.isPlaying /\ ~video.paused
    /\ restoredFrom # NoVideo

\* the step in which HomePage mounts the player
PlayerMountStep == ~player.mounted /\ player'.mounted

\* C31: with a storage that throws or holds a corrupt value the gate behaves
\* as with no grant stored and the player as with no progress stored, and no
\* step aborts: the mount effect of the gate ends the check, with access on a
\* handshake; a fallback of the revision part_002 grants access; the mount
\* of the player attaches the source from position 0; a time update that is
\* due to save leaves the stored progress alone when it cannot write.
C31_StorageFaultsDegrade ==
    [][/\ MountStep => ~isChecking' /\ (fromShortener(query) => hasAccess')
       /\ (FallbackStep /\ phase = "mounted") => hasAccess'
       /\ PlayerMountStep =>
            /\ video'.src = selectedVideo /\ hlsRef'.state = "active"
            /\ getCurrentTime(video') = 0
       /\ (handleTimeUpdate /\ setItemThrows(runtime)) =>
            /\ localStorage' = localStorage
            /\ player'.currentTime = getCurrentTime(video)]_vars

\* C32: no step of the gate or of the player, whatever the shortener or the
\* browser answers, lets an exception or a rejected promise escape.
C32_NothingEscapes == uncaught = NoFault

\* C33: a handshake or a fail-open fallback that makes the gate Granted has
\* written the grant in the same task: in the state that first renders
\* Granted the store holds a grant that passes the TTL check.
C33_GrantWrittenBeforeGranted ==
    [][((HandshakeStep \/ FallbackStep) /\ GateState' = "Granted")
        => checkAccess(localStorage', now')]_vars

\* the gate is Granted by a fallback and the store holds the grant of this instant
C33_Witness ==
    /\ via = "fallback" /\ GateState = "Granted"
    /\ checkAccess(localStorage, now) /\ ledger = Grant(now)

\* C34: hasAccess and isRedirecting are never both set: no redirect attempt
\* is in progress while access is granted.
C34_NeverGrantedAndRedirecting == ~(hasAccess /\ isRedirecting)

\* C36: a gate that is Granted and shows the children stays so for as long
\* as the page load lasts and the gate is mounted, whatever time passes: the
\* TTL of the stored grant is evaluated by the mount effect only.
C36_GrantedForThePageLoad ==
    [][(GateState = "Granted" /\ phase = "mounted" /\ phase' = "mounted")
        => (GateState' = "Granted" /\ View' = "children")]_vars

\* the gate is Granted and shows the children on a grant that is 24 hours old
C36_Witness ==
    /\ GateState = "Granted" /\ View = "children"
    /\ ledger.kind = "grant" /\ now - ledger.at >= twentyFourHours
    /\ ~checkAccess(localStorage, now)

\* C37: in a mounted gate isRedirecting is set exactly while a shortener
\* request is in flight.
C37_RedirectingIffInFlight ==
    phase = "mounted" => (isRedirecting <=> inflight > 0)

\* C35: an event of the engine or of the element that arrives after the
\* player has been unmounted changes no state of the controller and writes
\* no progress record.
C35_NoEffectAfterUnmount ==
    [][(\E e \in PlayerEvents : afterUnmount(e))
        => /\ player' = player
           /\ localStorage' = localStorage /\ writer' = writer
           /\ lastWriteAt' = lastWriteAt]_vars

\* an event has reached a listener that the native branch left on the
\* element of an unmounted player
C35_Witness ==
    /\ lastControl = "afterUnmount" /\ ~player.mounted
    /\ choosePath(runtime) = "native" /\ player = NoPlayer

\* the element has been given the stored position and has not yet reached
\* its metadata: the playback position is 0, the seek is still to come
RestorePending ==
    /\ player.mounted /\ video.readyState = "nothing"
    /\ video.currentTime = 0 /\ video.defaultStart > 0

\* C38: a time update delivered between the mount of a player with stored
\* progress p > 0 and the restoring seek leaves the stored progress at p.
C38_ProgressKeptUntilRestored ==
    [][(RestorePending /\ handleTimeUpdate)
        => /\ keyOf[player.url] \in DOMAIN localStorage'
           /\ parseFloat(localStorage'[keyOf[player.url]]) = parseFloat(localStorage[keyOf[player.url]])
           /\ parseFloat(localStorage'[keyOf[player.url]]).val = video.defaultStart]_vars

\* a time update has written the progress record while the seek was pending
C38_Witness ==
    /\ RestorePending /\ lastWriteAt = video.defaultStart
    /\ localStorage[keyOf[player.url]] = positionToString(video.defaultStart)

\* C39: a togglePlayPause that follows another one undoes it, also while
\* the play or pause event of the first is still to be delivered: with a
\* play event pending the element is paused again, and with a pause event
\* pending it plays again when the browser accepts the request.
C39_SecondToggleUndoesFirst ==
    [][/\ ((\E ok \in BOOLEAN : togglePlayPause(ok))
            /\ pendingEvent = "play" /\ ~video.paused) => video'.paused
       /\ (togglePlayPause(TRUE) /\ ~video.failed
            /\ pendingEvent = "pause" /\ video.paused) => ~video'.paused]_vars

\* C40: the handshake takes the completion marker out of the visible address
\* and nothing else: every other query parameter of the address the page was
\* loaded with is still there.
C40_OnlyTheMarkerRemoved ==
    [][(HandshakeStep /\ hasAccess')
        => /\ ~fromShortener(query')
           /\ query \ {<<MARKER_KEY, "true">>} \subseteq query']_vars

=============================================================================
